---- MODULE Spec2Model ----
(***************************************************************************)
(* A model of src/src/finetuning.py: the CLIP fine-tuning control loop.    *)
(*                                                                         *)
(*   ImageCaptionDataset   the dataset adapter and its mode flag           *)
(*   CLIPFinetuner         freezing, the unfreezing schedule, fit          *)
(*   EarlyStopping         best score, patience counter, checkpoint        *)
(*                                                                         *)
(* Two specifications share the variables:                                 *)
(*   Spec    one CLIPFinetuner: its construction, then one run of fit      *)
(*   SpecES  one EarlyStopping object called with any sequence of scores   *)
(*                                                                         *)
(* Abstractions.  Tensors are not modelled.  The model's weights are a     *)
(* version number that every _train pass advances; a loss value is the     *)
(* version it was computed on; a validation score is drawn from Scores.    *)
(* A parameter is its requires_grad flag.  The transformer towers are      *)
(* indexed from 0 as in the code.  random_split's Subset objects fetch     *)
(* item i as dataset[indices[i]] (torch.utils.data.Subset.__getitem__).    *)
(***************************************************************************)
EXTENDS Integers, Sequences, FiniteSets

\* ------------------------------------------------------------- bounds
MaxDepth == 3       \* transformer blocks per tower: 1..MaxDepth
MaxFrom == 3        \* unfreeze_from: 1..MaxFrom
MaxEvery == 2       \* unfreeze_every: 1..MaxEvery
MaxEpochs == 4      \* fit's epochs argument: 0..MaxEpochs
MaxPatience == 2    \* EarlyStopping's patience: 1..MaxPatience
MaxScore == 2       \* validation scores: 0..MaxScore
MaxCalls == 4       \* SpecES: calls of the EarlyStopping object
MaxWeights == 1     \* SpecES: weight updates between the calls

Scores == 0..MaxScore
Modes == {"max", "min"}

\* self._best_score = None
None == -1

VARIABLES
    \* ---- the model (clip.load) and CLIPFinetuner
    pc,              \* where construction / fit stands
    n_visual,        \* len(model.visual.transformer.resblocks)
    n_text,          \* len(model.transformer.resblocks)
    requires_grad,   \* the trainable flag of every parameter group
    weights,         \* version of the model's weights
    _tot_blocks,
    _unfreeze_from,
    _unfreeze_every,
    epochs,          \* fit's argument
    epoch,           \* fit's loop variable (0-based)
    train_loss,      \* fit's locals
    val_loss,
    val_score,
    \* ---- ImageCaptionDataset and the two Subsets of random_split
    dataset_mode,    \* ImageCaptionDataset.mode
    subset_mode,     \* the attribute "mode" of the train and val Subset
    fetch_log,       \* observed: (loader, augmented) of the items fetched
    \* ---- EarlyStopping
    _patience,
    _mode,
    _best_score,
    _counter,
    _stop,
    _train_loss,
    _val_loss,
    _val_scores,
    \* ---- the models directory
    checkpoint,      \* checkpoint.pt: None or the weights version it holds
    lists_disk,      \* loss.pkl and score.pkl: <<>> or the lists written
    \* ---- observed
    ckpt_writes,     \* number of torch.save calls
    call_weights     \* the weights version at each EarlyStopping call

modelVars == <<n_visual, n_text, requires_grad, weights, _tot_blocks>>
schedVars == <<_unfreeze_from, _unfreeze_every>>
fitVars == <<epochs, epoch, train_loss, val_loss, val_score>>
dataVars == <<dataset_mode, subset_mode>>
esVars == <<_patience, _mode, _best_score, _counter, _stop,
            _train_loss, _val_loss, _val_scores, checkpoint, ckpt_writes,
            call_weights>>
vars == <<pc, modelVars, schedVars, fitVars, dataVars, fetch_log, esVars,
          lists_disk>>

\* ------------------------------------------------------ EarlyStopping

\* A bug that treats a tie as an improvement.
IsImprovementTie(score) ==
    IF _mode = "max" THEN score >= _best_score ELSE score <= _best_score

\* A bug that ignores the mode.
IsImprovementNoMode(score) ==
    score > _best_score

\* _is_improvement
_is_improvement(score) ==
    IF _mode = "max" THEN score > _best_score ELSE score < _best_score

\* A bug that stops one call late.
PatienceExhaustedLate(counter) ==
    counter > _patience

\* if self._counter >= self._patience
PatienceExhausted(counter) ==
    counter >= _patience

\* _save_checkpoint: torch.save(self._model.state_dict(), checkpoint_path)
_save_checkpoint ==
    /\ checkpoint' = weights
    /\ ckpt_writes' = ckpt_writes + 1

\* _save_lists: pickle.dump of the three lists.  No code calls it.
_save_lists ==
    lists_disk' = <<_train_loss, _val_loss, _val_scores>>

\* EarlyStopping.__call__; its return value is self._stop, here _stop'.
EarlyStoppingCall(tl, vl, vs) ==
    /\ _train_loss' = Append(_train_loss, tl)
    /\ _val_loss' = Append(_val_loss, vl)
    /\ _val_scores' = Append(_val_scores, vs)
    /\ call_weights' = Append(call_weights, weights)
    /\ IF _best_score = None
       THEN /\ _best_score' = vs
            /\ UNCHANGED <<_counter, _stop, checkpoint, ckpt_writes>>
       ELSE IF _is_improvement(vs)
       THEN /\ _save_checkpoint
            /\ _best_score' = vs
            /\ _counter' = 0
            /\ UNCHANGED _stop
       ELSE /\ _counter' = _counter + 1
            /\ _stop' = (_stop \/ PatienceExhausted(_counter + 1))
            /\ UNCHANGED <<_best_score, checkpoint, ckpt_writes>>
    /\ UNCHANGED <<_patience, _mode>>

\* EarlyStopping.__init__ with the given patience and mode
EarlyStoppingInit(p, m) ==
    /\ _patience = p
    /\ _mode = m
    /\ _best_score = None
    /\ _counter = 0
    /\ _stop = FALSE
    /\ _train_loss = <<>>
    /\ _val_loss = <<>>
    /\ _val_scores = <<>>
    /\ checkpoint = None
    /\ ckpt_writes = 0
    /\ call_weights = <<>>

\* ------------------------------------------------------ CLIPFinetuner

\* What a call that may raise gives back: the flags it leaves behind and
\* whether it raised IndexError.
Outcome(grad, raised) == [grad |-> grad, raised |-> raised]

\* _freeze_model: requires_grad_(False) on every parameter
_freeze_model ==
    [visual |-> [i \in 0..(n_visual - 1) |-> FALSE],
     text |-> [i \in 0..(n_text - 1) |-> FALSE],
     visual_proj |-> FALSE,
     text_projection |-> FALSE,
     other |-> FALSE]

\* _unfreeze_blocks(blocks_to_unfreeze).  The projections come first, then
\* the image tower's loop, then the text tower's loop over the same index
\* range; resblocks[i] with i >= n_text raises IndexError there, after
\* the flags set so far.
_unfreeze_blocks(blocks_to_unfreeze) ==
    LET k == IF blocks_to_unfreeze > _tot_blocks
             THEN _tot_blocks ELSE blocks_to_unfreeze
        range == (_tot_blocks - k)..(_tot_blocks - 1)
    IN  Outcome(
          [requires_grad EXCEPT
             !.visual_proj = TRUE,
             !.text_projection = TRUE,
             !.visual = [i \in 0..(n_visual - 1) |->
                            requires_grad.visual[i] \/ i \in range],
             !.text = [i \in 0..(n_text - 1) |->
                            requires_grad.text[i] \/ i \in range]],
          \E i \in range : i >= n_text)

\* if epoch >= self._unfreeze_from and epoch % self._unfreeze_every == 0
ScheduleFires(e) ==
    e >= _unfreeze_from /\ e % _unfreeze_every = 0

\* A bug that forgets "blocks_to_unfreeze += 1".
BlocksToUnfreezeNoInc(e) ==
    (e - _unfreeze_from + _unfreeze_every) \div _unfreeze_every

\* blocks_to_unfreeze of _partial_unfreeze, e the 1-based epoch
BlocksToUnfreeze(e) ==
    ((e - _unfreeze_from + _unfreeze_every) \div _unfreeze_every) + 1

\* _partial_unfreeze(epoch), epoch 0-based as fit passes it
_partial_unfreeze(ep) ==
    LET e == ep + 1
    IN  IF ScheduleFires(e) /\ BlocksToUnfreeze(e) <= _tot_blocks
        THEN _unfreeze_blocks(BlocksToUnfreeze(e))
        ELSE Outcome(requires_grad, FALSE)

\* ImageCaptionDataset.__getitem__: if self.mode == "train": augment
Augments ==
    dataset_mode = "train"

\* An item fetched through a loader: Subset.__getitem__ hands the index to
\* the ImageCaptionDataset, whose own mode decides.
Fetch(loader) ==
    fetch_log' = fetch_log \cup {[loader |-> loader, augmented |-> Augments]}

\* A bug that never breaks out of the loop.
LoopExitNoBreak(stop) ==
    epoch + 1 >= epochs

\* fit: "if stop: break", else the for loop's own end
LoopExit(stop) ==
    stop \/ epoch + 1 >= epochs

\* ------------------------------------------------------------- Spec

\* The state after clip.load(...) and self._tot_blocks = len(...): every
\* parameter trainable.  The EarlyStopping object is the one line 89
\* builds (mode "max"); its patience, 50 there, is drawn from
\* 1..MaxPatience.
Init ==
    /\ pc = "loaded"
    /\ n_visual \in 1..MaxDepth
    /\ n_text \in 1..MaxDepth
    /\ requires_grad = [visual |-> [i \in 0..(n_visual - 1) |-> TRUE],
                        text |-> [i \in 0..(n_text - 1) |-> TRUE],
                        visual_proj |-> TRUE,
                        text_projection |-> TRUE,
                        other |-> TRUE]
    /\ weights = 0
    /\ _tot_blocks = n_visual
    /\ _unfreeze_from \in 1..MaxFrom
    /\ _unfreeze_every \in 1..MaxEvery
    /\ epochs = 0
    /\ epoch = 0
    /\ train_loss = 0
    /\ val_loss = 0
    /\ val_score = 0
    /\ dataset_mode = "train"
    /\ subset_mode = [train |-> "unset", val |-> "unset"]
    /\ fetch_log = {}
    /\ \E p \in 1..MaxPatience : EarlyStoppingInit(p, "max")
    /\ lists_disk = <<>>

\* __init__: self._freeze_model()
FreezeModel ==
    /\ pc = "loaded"
    /\ requires_grad' = _freeze_model
    /\ pc' = "frozen"
    /\ UNCHANGED <<n_visual, n_text, weights, _tot_blocks, schedVars, fitVars,
                   dataVars, fetch_log, esVars, lists_disk>>

\* __init__: self._unfreeze_blocks(1)
InitialUnfreeze ==
    /\ pc = "frozen"
    /\ requires_grad' = _unfreeze_blocks(1).grad
    /\ pc' = IF _unfreeze_blocks(1).raised THEN "error" ELSE "unfrozen"
    /\ UNCHANGED <<n_visual, n_text, weights, _tot_blocks, schedVars, fitVars,
                   dataVars, fetch_log, esVars, lists_disk>>

\* __init__: self._get_data_loaders(...): the mode attributes are set on
\* the two Subset objects, not on the dataset they wrap.
GetDataLoaders ==
    /\ pc = "unfrozen"
    /\ subset_mode' = [train |-> "train", val |-> "val"]
    /\ pc' = "ready"
    /\ UNCHANGED <<modelVars, schedVars, fitVars, dataset_mode, fetch_log,
                   esVars, lists_disk>>

\* fit(epochs): for epoch in range(epochs)
Fit(e) ==
    /\ pc = "ready"
    /\ epochs' = e
    /\ epoch' = 0
    /\ pc' = IF e = 0 THEN "returned" ELSE "partial_unfreeze"
    /\ UNCHANGED <<modelVars, schedVars, train_loss, val_loss, val_score,
                   dataVars, fetch_log, esVars, lists_disk>>

\* fit: self._partial_unfreeze(epoch)
PartialUnfreeze ==
    /\ pc = "partial_unfreeze"
    /\ requires_grad' = _partial_unfreeze(epoch).grad
    /\ pc' = IF _partial_unfreeze(epoch).raised THEN "error" ELSE "train"
    /\ UNCHANGED <<n_visual, n_text, weights, _tot_blocks, schedVars, fitVars,
                   dataVars, fetch_log, esVars, lists_disk>>

\* fit: train_loss = self._train()
Train ==
    /\ pc = "train"
    /\ Fetch("train")
    /\ weights' = weights + 1
    /\ train_loss' = weights + 1
    /\ pc' = "validate"
    /\ UNCHANGED <<n_visual, n_text, requires_grad, _tot_blocks, schedVars,
                   epochs, epoch, val_loss, val_score, dataVars, esVars,
                   lists_disk>>

\* fit: val_loss, val_score = self._validate()
Validate(s) ==
    /\ pc = "validate"
    /\ Fetch("val")
    /\ val_loss' = weights
    /\ val_score' = s
    /\ pc' = "early_stopping"
    /\ UNCHANGED <<modelVars, schedVars, epochs, epoch, train_loss, dataVars,
                   esVars, lists_disk>>

\* fit: stop = self._early_stopping(...); if stop: break
EarlyStop ==
    /\ pc = "early_stopping"
    /\ EarlyStoppingCall(train_loss, val_loss, val_score)
    /\ IF LoopExit(_stop')
       THEN pc' = "returned" /\ UNCHANGED epoch
       ELSE pc' = "partial_unfreeze" /\ epoch' = epoch + 1
    /\ UNCHANGED <<modelVars, schedVars, epochs, train_loss, val_loss,
                   val_score, dataVars, fetch_log, lists_disk>>

Next ==
    \/ FreezeModel
    \/ InitialUnfreeze
    \/ GetDataLoaders
    \/ \E e \in 0..MaxEpochs : Fit(e)
    \/ PartialUnfreeze
    \/ Train
    \/ \E s \in Scores : Validate(s)
    \/ EarlyStop

Spec == Init /\ [][Next]_vars

\* ------------------------------------------------------------ SpecES

\* One EarlyStopping object of any patience and mode, no call made yet.
InitES ==
    /\ pc = "es"
    /\ n_visual = 1
    /\ n_text = 1
    /\ requires_grad = _freeze_model
    /\ weights = 0
    /\ _tot_blocks = 1
    /\ _unfreeze_from = 1
    /\ _unfreeze_every = 1
    /\ epochs = 0
    /\ epoch = 0
    /\ train_loss = 0
    /\ val_loss = 0
    /\ val_score = 0
    /\ dataset_mode = "train"
    /\ subset_mode = [train |-> "unset", val |-> "unset"]
    /\ fetch_log = {}
    /\ \E p \in 1..MaxPatience : \E m \in Modes : EarlyStoppingInit(p, m)
    /\ lists_disk = <<>>

\* The caller trains the model between two calls.
ModelUpdate ==
    /\ pc = "es"
    /\ weights < MaxWeights
    /\ weights' = weights + 1
    /\ UNCHANGED <<pc, n_visual, n_text, requires_grad, _tot_blocks, schedVars,
                   fitVars, dataVars, fetch_log, esVars, lists_disk>>

\* early_stopping(train_loss, val_loss, val_score)
Call(s) ==
    /\ pc = "es"
    /\ Len(_val_scores) < MaxCalls
    /\ EarlyStoppingCall(weights, weights, s)
    /\ UNCHANGED <<pc, modelVars, schedVars, fitVars, dataVars, fetch_log,
                   lists_disk>>

NextES ==
    \/ ModelUpdate
    \/ \E s \in Scores : Call(s)

SpecES == InitES /\ [][NextES]_vars

\* ---------------------------------------------- what the claims speak of

Max(S) == CHOOSE x \in S : \A y \in S : y <= x
Min(S) == CHOOSE x \in S : \A y \in S : x <= y

\* a strictly better than b in mode m
Better(a, b, m) == IF m = "max" THEN a > b ELSE a < b

\* the best of the first n scores of a history
BestOfFirst(scores, n, m) ==
    LET S == {scores[j] : j \in 1..n}
    IN  IF m = "max" THEN Max(S) ELSE Min(S)

\* call i of a history strictly beat everything before it
Improving(scores, i, m) ==
    i > 1 /\ Better(scores[i], BestOfFirst(scores, i - 1, m), m)

\* the consecutive non-improving calls that end the first n calls of a
\* history, counted since the last improving call or the first call
Streak(scores, n, m) ==
    n - Max({i \in 1..n : i = 1 \/ Improving(scores, i, m)})

\* the trainable blocks at the end of a tower of depth d
Trailing(flags, d) ==
    Max({k \in 0..d : \A i \in (d - k)..(d - 1) : flags[i]})

\* a call of the EarlyStopping object happens in this step
IsCall == Len(_val_scores') = Len(_val_scores) + 1

\* ------------------------------------------------------------ claims

\* C1: a call writes a checkpoint if and only if a best score was recorded
\* before the call and the call's score is strictly better than it (greater
\* in mode "max", less in mode "min"); any other call writes none and
\* leaves the file as it was.
C1_CheckpointIffStrictlyBetter ==
    [][IsCall =>
        LET s == _val_scores'[Len(_val_scores')]
            better == _best_score /= None /\ Better(s, _best_score, _mode)
        IN  /\ better => ckpt_writes' = ckpt_writes + 1 /\ checkpoint' = weights
            /\ ~better => ckpt_writes' = ckpt_writes /\ checkpoint' = checkpoint
      ]_vars

\* C1 witness: in mode "min", a history with a checkpoint written and with
\* a later call, equal or worse, that wrote none.
C1_Witness ==
    /\ _mode = "min"
    /\ ckpt_writes >= 1
    /\ Len(_val_scores) >= 3
    /\ ~Improving(_val_scores, Len(_val_scores), _mode)
    /\ _val_scores[Len(_val_scores)] = _best_score

\* C2: after every call the patience counter is the number of consecutive
\* non-improving calls since the last improving call (or the first call),
\* so 0 after an improving call; and the object has answered True exactly
\* if that number has reached the patience at some call so far, so that the
\* first True is the call at which the number reaches the patience.
C2_CounterIsStreak ==
    LET n == Len(_val_scores)
    IN  /\ n = 0 => _counter = 0 /\ ~_stop
        /\ n >= 1 =>
             /\ _counter = Streak(_val_scores, n, _mode)
             /\ _stop <=> \E j \in 1..n :
                              Streak(_val_scores, j, _mode) = _patience

\* C2 witness: the counter reached a patience of 2 after an improving call
\* had reset it.
C2_Witness ==
    /\ _stop
    /\ _patience = 2
    /\ _counter = _patience
    /\ ckpt_writes >= 1
    /\ Len(_val_scores) = 4

\* C3: after every call the best score is the maximum (mode "max") or the
\* minimum (mode "min") of all the scores passed so far, the first included.
C3_BestIsExtremum ==
    Len(_val_scores) >= 1 =>
        _best_score = BestOfFirst(_val_scores, Len(_val_scores), _mode)

\* C3 witness: mode "min", three calls, the best is not the first score.
C3_Witness ==
    /\ _mode = "min"
    /\ Len(_val_scores) >= 3
    /\ _best_score < _val_scores[1]
    /\ _best_score < _val_scores[Len(_val_scores)]

\* C9: after any non-empty sequence of calls a checkpoint is on disk and
\* holds the model state of the call that set the current best score.
C9_CheckpointHoldsBest ==
    LET n == Len(_val_scores)
        b == Min({i \in 1..n : _val_scores[i] = _best_score})
    IN  n >= 1 => checkpoint /= None /\ checkpoint = call_weights[b]

\* the trainable trailing blocks of the image tower, whose depth is the
\* total block count
TrailingVisual == Trailing(requires_grad.visual, n_visual)

\* fit's _partial_unfreeze call of this step returned
UnfreezeStep == pc = "partial_unfreeze" /\ pc' = "train"

\* C4: while frozen blocks remain, one more block is unfrozen at the
\* 1-based epoch unfreeze_from and at every epoch unfreeze_from +
\* k * unfreeze_every, and at no other epoch.
C4_ScheduleEpochs ==
    [][UnfreezeStep /\ TrailingVisual < _tot_blocks =>
        LET e == epoch + 1
        IN  Trailing(requires_grad'.visual, n_visual) > TrailingVisual
              <=> (e >= _unfreeze_from
                   /\ (e - _unfreeze_from) % _unfreeze_every = 0)
      ]_vars

\* C5: augmentation is applied only to items fetched through the training
\* loader, never to an item of the validation split.
C5_ValidationNotAugmented ==
    \A r \in fetch_log : r.augmented => r.loader = "train"

\* C6: a run of fit that has returned has written the train and validation
\* loss lists and the score list, one entry per completed epoch (stated
\* for the runs that completed at least one epoch).
C6_ListsWritten ==
    pc = "returned" /\ Len(_val_scores) >= 1 =>
        /\ lists_disk = <<_train_loss, _val_loss, _val_scores>>
        /\ Len(_val_scores) = weights

\* the count _unfreeze_blocks is called with in this step, if it is called
UnfreezeCalledWith(k) ==
    \/ pc = "frozen" /\ k = 1
    \/ /\ pc = "partial_unfreeze"
       /\ ScheduleFires(epoch + 1)
       /\ BlocksToUnfreeze(epoch + 1) <= _tot_blocks
       /\ k = BlocksToUnfreeze(epoch + 1)

\* the flags with the projections and the last min(k, d) blocks of each
\* tower set, each tower against its own depth d
LastOfEachTower(k) ==
    LET last(d) == (d - (IF k > d THEN d ELSE k))..(d - 1)
    IN  [requires_grad EXCEPT
           !.visual_proj = TRUE,
           !.text_projection = TRUE,
           !.visual = [i \in 0..(n_visual - 1) |->
                          requires_grad.visual[i] \/ i \in last(n_visual)],
           !.text = [i \in 0..(n_text - 1) |->
                          requires_grad.text[i] \/ i \in last(n_text)]]

\* C10: for every count k and every pair of tower depths,
\* _unfreeze_blocks(k) raises no index error and marks trainable exactly
\* the projections and the last min(k, depth) blocks of each tower, each
\* against its own depth, every earlier block's flag unchanged.
C10_UnfreezeEachTower ==
    [][\A k \in 0..MaxDepth : UnfreezeCalledWith(k) =>
          pc' /= "error" /\ requires_grad' = LastOfEachTower(k)
      ]_vars

\* the towers whose depth is the total block count
CountedTowers ==
    {"visual"} \cup (IF n_text = n_visual THEN {"text"} ELSE {})

\* C7: the number of trainable trailing blocks is 1 after construction;
\* across the epochs of fit it never decreases, grows by exactly one at
\* each epoch where the schedule fires while frozen blocks remain, is
\* unchanged at every other epoch and never exceeds the total block count;
\* once it equals the total, no later step changes any parameter's flag.
\* The count is taken on the image tower, whose depth is the total block
\* count, and on the text tower when it has the same depth.
C7_TrailingBlocksGrowByOne ==
    /\ [](\A t \in CountedTowers :
            /\ pc \in {"unfrozen", "ready"}
                 => Trailing(requires_grad[t], _tot_blocks) = 1
            /\ pc \notin {"loaded", "frozen", "error", "es"}
                 => Trailing(requires_grad[t], _tot_blocks) <= _tot_blocks)
    /\ [][pc \notin {"loaded", "frozen", "es"} =>
            \A t \in CountedTowers :
              LET before == Trailing(requires_grad[t], _tot_blocks)
                  after == Trailing(requires_grad'[t], _tot_blocks)
                  fires == /\ pc = "partial_unfreeze"
                           /\ ScheduleFires(epoch + 1)
              IN  /\ after >= before
                  /\ fires /\ before < _tot_blocks => after = before + 1
                  /\ ~fires => after = before
                  /\ before = _tot_blocks => requires_grad' = requires_grad
         ]_vars

\* C7 witness: a tower of three blocks, all unfrozen one by one, and an
\* epoch past the last unfreezing.
C7_Witness ==
    /\ pc = "train"
    /\ _tot_blocks = 3
    /\ n_text = 3
    /\ _unfreeze_every = 1
    /\ _unfreeze_from = 2
    /\ TrailingVisual = 3
    /\ epoch + 1 = 4

\* C8: fit(epochs) ends after at most epochs epochs; each epoch is the
\* unfreeze check, the training pass, the validation pass and one
\* early-stopping call, in that order; when the call of an epoch returns
\* True, fit returns at once, and a returned fit does nothing more.
C8_FitLoop ==
    /\ [](pc \in {"partial_unfreeze", "train", "validate", "early_stopping",
                  "returned"} =>
            /\ Len(_val_scores) <= epochs
            /\ epoch = IF pc = "returned" /\ Len(_val_scores) > 0
                       THEN Len(_val_scores) - 1 ELSE Len(_val_scores)
            /\ weights = Len(_val_scores)
                           + (IF pc \in {"validate", "early_stopping"}
                              THEN 1 ELSE 0)
            /\ pc /= "returned" => ENABLED Next)
    /\ [][/\ pc /= "returned"
          /\ pc = "partial_unfreeze" => pc' \in {"train", "error"}
          /\ pc = "train" => pc' = "validate"
          /\ pc = "validate" => pc' = "early_stopping"
          /\ pc = "early_stopping" =>
               /\ Len(_val_scores') = Len(_val_scores) + 1
               /\ _stop' => pc' = "returned"
               /\ pc' = "returned" <=> (_stop' \/ Len(_val_scores') = epochs)
               /\ pc' /= "returned" => pc' = "partial_unfreeze"
         ]_vars

\* C8 witness: fit returned on an early stop with epochs left to run.
C8_Witness ==
    /\ pc = "returned"
    /\ _stop
    /\ Len(_val_scores) = 3
    /\ epochs = 4

====
